---- MODULE Spec2Model ----
(***************************************************************************)
(* A model of src/ex2/nexus_pipeline.py: the processing stages, the three  *)
(* pipeline adapters with their run statistics, the stream adapter's       *)
(* bounded buffer, and the NexusManager that routes, chains and recovers.  *)
(*                                                                         *)
(* Python values are tagged records.  A Python str is a sequence of        *)
(* one-character strings, so that startswith, "in", split, len, repr and   *)
(* the JSON conversions are computed character by character.               *)
(***************************************************************************)
EXTENDS Integers, Sequences, FiniteSets, TLC

(***************************************************************************)
(* Python values                                                           *)
(***************************************************************************)
PyNone == [t |-> "None"]
PyStr(s) == [t |-> "str", s |-> s]
PyInt(n) == [t |-> "int", n |-> n]
PyBool(b) == [t |-> "bool", b |-> b]
\* a float with an integral value n, printed by Python as "n.0"
PyFloat(n) == [t |-> "float", n |-> n]
PyList(items) == [t |-> "list", items |-> items]
\* a dict keeps insertion order: kv is a sequence of <<key, value>> pairs
PyDict(kv) == [t |-> "dict", kv |-> kv]
\* the empty set object set()
PySet == [t |-> "set"]

(***************************************************************************)
(* The string literals of the source                                       *)
(***************************************************************************)
SOutput == <<"O", "u", "t", "p", "u", "t", ":", " ">>
SListWith == <<"O", "u", "t", "p", "u", "t", ":", " ", "L", "i", "s", "t", " ", "w", "i", "t", "h", " ">>
SItemsSuffix == <<" ", "i", "t", "e", "m", "s">>
SErrProcessing == <<"E", "r", "r", "o", "r", " ", "p", "r", "o", "c", "e", "s", "s", "i", "n", "g", " ">>
SErrJSON == SErrProcessing \o <<"J", "S", "O", "N", ":", " ">>
SErrCSV == SErrProcessing \o <<"C", "S", "V", ":", " ">>
SErrStream == SErrProcessing \o <<"s", "t", "r", "e", "a", "m", ":", " ">>
SNoneInput == <<"I", "n", "p", "u", "t", " ", "d", "a", "t", "a", " ", "c", "a", "n", "n", "o", "t", " ", "b", "e", " ", "N", "o", "n", "e">>
SInvalidFormat == <<"I", "n", "v", "a", "l", "i", "d", " ", "d", "a", "t", "a", " ", "f", "o", "r", "m", "a", "t">>
SErr == <<"E", "r", "r", "o", "r", ":", " ">>
SInvalidIndex == SErr \o <<"I", "n", "v", "a", "l", "i", "d", " ", "p", "i", "p", "e", "l", "i", "n", "e", " ", "i", "n", "d", "e", "x">>
SNoStartswith == <<"'", " ", "o", "b", "j", "e", "c", "t", " ", "h", "a", "s", " ", "n", "o", " ", "a", "t", "t", "r", "i", "b", "u", "t", "e", " ", "'", "s", "t", "a", "r", "t", "s", "w", "i", "t", "h", "'">>
SNotSerializable == <<"O", "b", "j", "e", "c", "t", " ", "o", "f", " ", "t", "y", "p", "e", " ", "s", "e", "t", " ", "i", "s", " ", "n", "o", "t", " ", "J", "S", "O", "N", " ", "s", "e", "r", "i", "a", "l", "i", "z", "a", "b", "l", "e">>
KProcessed == <<"_", "p", "r", "o", "c", "e", "s", "s", "e", "d">>
KTimestamp == <<"_", "t", "i", "m", "e", "s", "t", "a", "m", "p">>
KItems == <<"i", "t", "e", "m", "s">>
KCount == <<"c", "o", "u", "n", "t">>
KText == <<"t", "e", "x", "t">>
KLength == <<"l", "e", "n", "g", "t", "h">>
KValue == <<"v", "a", "l", "u", "e">>
STrue == <<"T", "r", "u", "e">>
SFalse == <<"F", "a", "l", "s", "e">>
SNone == <<"N", "o", "n", "e">>
SSet == <<"s", "e", "t", "(", ")">>
JTrue == <<"t", "r", "u", "e">>
JFalse == <<"f", "a", "l", "s", "e">>
JNull == <<"n", "u", "l", "l">>
Digits == <<"0", "1", "2", "3", "4", "5", "6", "7", "8", "9">>

(***************************************************************************)
(* str methods                                                             *)
(***************************************************************************)
Contains(s, c) == \E i \in 1..Len(s) : s[i] = c

StartsWith(s, p) == Len(s) >= Len(p) /\ SubSeq(s, 1, Len(p)) = p

\* the index of the k-th c in s; 0 for k = 0, Len(s) + 1 past the last one
Nth(s, c, k) ==
  IF k = 0 THEN 0
  ELSE IF k > Cardinality({i \in 1..Len(s) : s[i] = c}) THEN Len(s) + 1
  ELSE CHOOSE i \in 1..Len(s) :
         s[i] = c /\ Cardinality({j \in 1..i : s[j] = c}) = k

\* s.split(c): the pieces between the occurrences of c, empty pieces kept
Split(s, c) ==
  [k \in 1..(Cardinality({i \in 1..Len(s) : s[i] = c}) + 1) |->
     PyStr(SubSeq(s, Nth(s, c, k - 1) + 1, Nth(s, c, k) - 1))]

\* sep.join(parts), parts a sequence of character sequences (computed on
\* the two halves of parts, which keeps the recursion shallow)
RECURSIVE Join(_, _)
Join(parts, sep) ==
  IF Len(parts) = 0 THEN <<>>
  ELSE IF Len(parts) = 1 THEN parts[1]
  ELSE Join(SubSeq(parts, 1, Len(parts) \div 2), sep) \o sep
       \o Join(SubSeq(parts, (Len(parts) \div 2) + 1, Len(parts)), sep)

(***************************************************************************)
(* str() and repr()                                                        *)
(***************************************************************************)
RECURSIVE NatStr(_)
NatStr(n) ==
  IF n < 10 THEN <<Digits[n + 1]>>
  ELSE NatStr(n \div 10) \o <<Digits[(n % 10) + 1]>>

IntStr(n) == IF n < 0 THEN <<"-">> \o NatStr(0 - n) ELSE NatStr(n)

\* the body of repr(str): backslash and the chosen quote are escaped
\* (computed on the two halves of s, which keeps the recursion shallow)
RECURSIVE Escape(_, _)
Escape(s, q) ==
  IF Len(s) = 0 THEN <<>>
  ELSE IF Len(s) = 1
  THEN (IF s[1] = "\\" \/ s[1] = q THEN <<"\\", s[1]>> ELSE s)
  ELSE Escape(SubSeq(s, 1, Len(s) \div 2), q)
       \o Escape(SubSeq(s, (Len(s) \div 2) + 1, Len(s)), q)

\* repr(str) quotes with ' unless the text holds a ' and no "
StrRepr(s) ==
  IF Contains(s, "'") /\ ~Contains(s, "\"")
  THEN <<"\"">> \o Escape(s, "\"") \o <<"\"">>
  ELSE <<"'">> \o Escape(s, "'") \o <<"'">>

RECURSIVE Repr(_)
Repr(v) ==
  CASE v.t = "None" -> SNone
    [] v.t = "str" -> StrRepr(v.s)
    [] v.t = "int" -> IntStr(v.n)
    [] v.t = "bool" -> (IF v.b THEN STrue ELSE SFalse)
    [] v.t = "float" -> IntStr(v.n) \o <<".", "0">>
    [] v.t = "set" -> SSet
    [] v.t = "list" ->
         <<"[">> \o Join([i \in 1..Len(v.items) |-> Repr(v.items[i])], <<",", " ">>)
         \o <<"]">>
    [] v.t = "dict" ->
         <<"{">> \o Join([i \in 1..Len(v.kv) |->
                            Repr(v.kv[i][1]) \o <<":", " ">> \o Repr(v.kv[i][2])],
                         <<",", " ">>)
         \o <<"}">>

\* str(v): a str is itself, anything else prints as its repr
Str(v) == IF v.t = "str" THEN v.s ELSE Repr(v)

(***************************************************************************)
(* dict operations                                                         *)
(***************************************************************************)
HasKey(kv, k) == \E i \in 1..Len(kv) : kv[i][1] = k

\* d[k] = x: an existing key keeps its place, a new key goes last
DictSet(kv, k, x) ==
  IF HasKey(kv, k)
  THEN [i \in 1..Len(kv) |-> IF kv[i][1] = k THEN <<k, x>> ELSE kv[i]]
  ELSE Append(kv, <<k, x>>)

(***************************************************************************)
(* json.dumps and json.loads                                               *)
(*                                                                         *)
(* The texts that reach json.loads here hold objects, arrays, strings,     *)
(* integers and the three literals, with the escapes \" \\ \/ only; a      *)
(* number with a fraction or an exponent, NaN, Infinity and the escapes    *)
(* that give a control character are outside the alphabet of the model.    *)
(***************************************************************************)
\* json.dumps raises TypeError on an object that is no JSON type
RECURSIVE JsonSerializable(_)
JsonSerializable(v) ==
  CASE v.t = "set" -> FALSE
    [] v.t = "list" -> \A i \in 1..Len(v.items) : JsonSerializable(v.items[i])
    [] v.t = "dict" -> \A i \in 1..Len(v.kv) : JsonSerializable(v.kv[i][2])
    [] OTHER -> TRUE

JsonString(s) == <<"\"">> \o Escape(s, "\"") \o <<"\"">>

RECURSIVE JsonText(_)
\* v as JSON text; a dict key that is not a str is written as the text of
\* its JSON value
JsonText(v) ==
  CASE v.t = "None" -> JNull
    [] v.t = "str" -> JsonString(v.s)
    [] v.t = "int" -> IntStr(v.n)
    [] v.t = "bool" -> (IF v.b THEN JTrue ELSE JFalse)
    [] v.t = "float" -> IntStr(v.n) \o <<".", "0">>
    [] v.t = "list" ->
         <<"[">> \o Join([i \in 1..Len(v.items) |-> JsonText(v.items[i])], <<",", " ">>)
         \o <<"]">>
    [] v.t = "dict" ->
         <<"{">> \o Join([i \in 1..Len(v.kv) |->
                            (IF v.kv[i][1].t = "str" THEN JsonString(v.kv[i][1].s)
                             ELSE JsonString(JsonText(v.kv[i][1])))
                            \o <<":", " ">> \o JsonText(v.kv[i][2])],
                         <<",", " ">>)
         \o <<"}">>

\* json.dumps(v): the text, or the TypeError's message
json_dumps(v) ==
  IF JsonSerializable(v)
  THEN [raised |-> FALSE, val |-> PyStr(JsonText(v)), msg |-> <<>>]
  ELSE [raised |-> TRUE, val |-> PyNone, msg |-> SNotSerializable]

\* the character at i, or "" past the end
At(s, i) == IF i >= 1 /\ i <= Len(s) THEN s[i] ELSE ""

\* s[i-1:j] in Python's terms: the characters i..j that exist
Slice(s, i, j) == SubSeq(s, i, IF j <= Len(s) THEN j ELSE Len(s))

IsDigit(c) == \E d \in 1..10 : Digits[d] = c
DigitVal(c) == (CHOOSE d \in 1..10 : Digits[d] = c) - 1

RECURSIVE SkipWs(_, _)
SkipWs(s, i) == IF At(s, i) = " " THEN SkipWs(s, i + 1) ELSE i

ParseFail == [ok |-> FALSE, v |-> PyNone, i |-> 0]
ParseOk(v, i) == [ok |-> TRUE, v |-> v, i |-> i]

\* the characters of a string up to its closing quote, from i
RECURSIVE ParseStringBody(_, _, _)
ParseStringBody(s, i, acc) ==
  LET c == At(s, i)
  IN IF c = "" THEN ParseFail
     ELSE IF c = "\"" THEN ParseOk(acc, i + 1)
     ELSE IF c = "\\"
          THEN IF At(s, i + 1) \in {"\"", "\\", "/"}
               THEN ParseStringBody(s, i + 2, Append(acc, At(s, i + 1)))
               ELSE ParseFail
     ELSE ParseStringBody(s, i + 1, Append(acc, c))

RECURSIVE ParseDigits(_, _, _)
ParseDigits(s, i, n) ==
  IF IsDigit(At(s, i)) THEN ParseDigits(s, i + 1, 10 * n + DigitVal(At(s, i)))
  ELSE ParseOk(n, i)

\* the digits of a number from j: 0, or a digit string that does not start with 0
ParseMagnitude(s, j) ==
  IF At(s, j) = "0" THEN ParseOk(0, j + 1)
  ELSE IF IsDigit(At(s, j)) THEN ParseDigits(s, j, 0)
  ELSE ParseFail

\* the int of the magnitude r, negated when neg
SignedNumber(s, neg, r) ==
  IF ~r.ok \/ At(s, r.i) \in {".", "e", "E"} THEN ParseFail
  ELSE ParseOk(PyInt(IF neg THEN 0 - r.v ELSE r.v), r.i)

\* an integer: an optional -, then its digits
ParseNumber(s, i) ==
  IF At(s, i) = "-" THEN SignedNumber(s, TRUE, ParseMagnitude(s, i + 1))
  ELSE SignedNumber(s, FALSE, ParseMagnitude(s, i))

ParsedString(r) == IF r.ok THEN ParseOk(PyStr(r.v), r.i) ELSE ParseFail

RECURSIVE ParseValue(_, _)
RECURSIVE ParseElements(_, _, _)
RECURSIVE ParseMembers(_, _, _)
RECURSIVE AfterElement(_, _, _)
RECURSIVE AfterKey(_, _, _)
RECURSIVE AfterMember(_, _, _, _)
\* the JSON value that starts at i (whitespace before it already skipped)
ParseValue(s, i) ==
  LET c == At(s, i)
  IN CASE c = "{" ->
            (LET j == SkipWs(s, i + 1)
             IN IF At(s, j) = "}" THEN ParseOk(PyDict(<<>>), j + 1)
                ELSE ParseMembers(s, j, <<>>))
       [] c = "[" ->
            (LET j == SkipWs(s, i + 1)
             IN IF At(s, j) = "]" THEN ParseOk(PyList(<<>>), j + 1)
                ELSE ParseElements(s, j, <<>>))
       [] c = "\"" -> ParsedString(ParseStringBody(s, i + 1, <<>>))
       [] c = "-" \/ IsDigit(c) -> ParseNumber(s, i)
       [] c = "t" /\ Slice(s, i, i + 3) = JTrue -> ParseOk(PyBool(TRUE), i + 4)
       [] c = "f" /\ Slice(s, i, i + 4) = JFalse -> ParseOk(PyBool(FALSE), i + 5)
       [] c = "n" /\ Slice(s, i, i + 3) = JNull -> ParseOk(PyNone, i + 4)
       [] OTHER -> ParseFail
\* the elements of an array after "[", up to and including "]"
ParseElements(s, i, acc) == AfterElement(s, acc, ParseValue(s, i))
\* what follows the element r: "," and the next element, or "]"
AfterElement(s, acc, r) ==
  IF ~r.ok THEN ParseFail
  ELSE IF At(s, SkipWs(s, r.i)) = ","
       THEN ParseElements(s, SkipWs(s, SkipWs(s, r.i) + 1), Append(acc, r.v))
  ELSE IF At(s, SkipWs(s, r.i)) = "]"
       THEN ParseOk(PyList(Append(acc, r.v)), SkipWs(s, r.i) + 1)
  ELSE ParseFail
\* the members of an object after "{", up to and including "}"
ParseMembers(s, i, acc) ==
  IF At(s, i) = "\"" THEN AfterKey(s, acc, ParseStringBody(s, i + 1, <<>>))
  ELSE ParseFail
\* what follows the key: ":" and the member's value
AfterKey(s, acc, key) ==
  IF key.ok /\ At(s, SkipWs(s, key.i)) = ":"
  THEN AfterMember(s, acc, key.v, ParseValue(s, SkipWs(s, SkipWs(s, key.i) + 1)))
  ELSE ParseFail
\* what follows the member k: r, "," and the next member, or "}"
AfterMember(s, acc, k, r) ==
  IF ~r.ok THEN ParseFail
  ELSE IF At(s, SkipWs(s, r.i)) = ","
       THEN ParseMembers(s, SkipWs(s, SkipWs(s, r.i) + 1), DictSet(acc, PyStr(k), r.v))
  ELSE IF At(s, SkipWs(s, r.i)) = "}"
       THEN ParseOk(PyDict(DictSet(acc, PyStr(k), r.v)), SkipWs(s, r.i) + 1)
  ELSE ParseFail

\* the value r when only whitespace follows it
WholeText(s, r) == IF r.ok /\ SkipWs(s, r.i) = Len(s) + 1 THEN r ELSE ParseFail

\* json.loads(s): the value, or ok = FALSE for a JSONDecodeError
json_loads(s) == WholeText(s, ParseValue(s, SkipWs(s, 1)))

(***************************************************************************)
(* The stages.  A stage returns [raised, val, msg]: the value it returns,  *)
(* or raised = TRUE with str(e) of the exception it raises.                *)
(***************************************************************************)
Returned(v) == [raised |-> FALSE, val |-> v, msg |-> <<>>]
Raised(msg) == [raised |-> TRUE, val |-> PyNone, msg |-> msg]

\* type(v).__name__
TypeName(v) ==
  CASE v.t = "None" -> <<"N", "o", "n", "e", "T", "y", "p", "e">>
    [] v.t = "str" -> <<"s", "t", "r">>
    [] v.t = "int" -> <<"i", "n", "t">>
    [] v.t = "bool" -> <<"b", "o", "o", "l">>
    [] v.t = "float" -> <<"f", "l", "o", "a", "t">>
    [] v.t = "list" -> <<"l", "i", "s", "t">>
    [] v.t = "dict" -> <<"d", "i", "c", "t">>
    [] v.t = "set" -> <<"s", "e", "t">>

\* InputStage.process
\* the str branch of InputStage.process: parsed is what json.loads gave
\* (ok = FALSE when it was not tried or raised JSONDecodeError)
InputText(data, parsed) ==
  IF parsed.ok THEN Returned(parsed.v)
  ELSE IF Contains(data.s, ",") THEN Returned(PyList(Split(data.s, ",")))
  ELSE Returned(data)

InputStage_process(data) ==
  IF data.t = "None" THEN Raised(SNoneInput)
  ELSE IF data.t = "str"
  THEN InputText(data, IF StartsWith(data.s, <<"{">>) \/ StartsWith(data.s, <<"[">>)
                       THEN json_loads(data.s)
                       ELSE ParseFail)
  ELSE Returned(data)

\* TransformStage.process without its list branch: a list goes on as it is
TransformStage_process_keeping_lists(data, ts) ==
  CASE data.t = "dict" ->
         Returned(PyDict(DictSet(DictSet(data.kv, PyStr(KProcessed), PyBool(TRUE)),
                                 PyStr(KTimestamp), PyFloat(ts))))
    [] data.t = "list" -> Returned(data)
    [] data.t = "str" ->
         Returned(PyDict(<< <<PyStr(KText), data>>,
                            <<PyStr(KLength), PyInt(Len(data.s))>>,
                            <<PyStr(KProcessed), PyBool(TRUE)>> >>))
    [] OTHER ->
         Returned(PyDict(<< <<PyStr(KValue), data>>,
                            <<PyStr(KProcessed), PyBool(TRUE)>> >>))

\* TransformStage.process; ts is the reading of time.time()
TransformStage_process(data, ts) ==
  CASE data.t = "dict" ->
         Returned(PyDict(DictSet(DictSet(data.kv, PyStr(KProcessed), PyBool(TRUE)),
                                 PyStr(KTimestamp), PyFloat(ts))))
    [] data.t = "list" ->
         Returned(PyDict(<< <<PyStr(KItems), data>>,
                            <<PyStr(KCount), PyInt(Len(data.items))>>,
                            <<PyStr(KProcessed), PyBool(TRUE)>> >>))
    [] data.t = "str" ->
         Returned(PyDict(<< <<PyStr(KText), data>>,
                            <<PyStr(KLength), PyInt(Len(data.s))>>,
                            <<PyStr(KProcessed), PyBool(TRUE)>> >>))
    [] OTHER ->
         Returned(PyDict(<< <<PyStr(KValue), data>>,
                            <<PyStr(KProcessed), PyBool(TRUE)>> >>))

\* not key.startswith('_')
Shown(pair) == ~StartsWith(pair[1].s, <<"_">>)

\* the "key=value" texts of the keys that do not start with "_", in order
OutputItems(kv) ==
  [i \in 1..Len(SelectSeq(kv, Shown)) |->
     Str(SelectSeq(kv, Shown)[i][1]) \o <<"=">> \o Str(SelectSeq(kv, Shown)[i][2])]

\* OutputStage.process; key.startswith raises AttributeError on the first
\* key that is no str
OutputStage_process(data) ==
  CASE data.t = "dict" ->
         (LET bad == {i \in 1..Len(data.kv) : data.kv[i][1].t # "str"}
          IN IF bad # {}
             THEN Raised(<<"'">>
                         \o TypeName(data.kv[CHOOSE i \in bad : \A j \in bad : i <= j][1])
                         \o SNoStartswith)
             ELSE Returned(PyStr(SOutput \o Join(OutputItems(data.kv), <<",", " ">>))))
    [] data.t = "list" ->
         Returned(PyStr(SListWith \o IntStr(Len(data.items)) \o SItemsSuffix))
    [] OTHER -> Returned(PyStr(SOutput \o Str(data)))

\* FailingStage.process of the error recovery test
FailingStage_process(data) == Raised(SInvalidFormat)

\* stage.process(data) for the stage classes of the source
StageProcess(stage, data, ts) ==
  CASE stage = "Input" -> InputStage_process(data)
    [] stage = "Transform" -> TransformStage_process(data, ts)
    [] stage = "Output" -> OutputStage_process(data)
    [] stage = "Failing" -> FailingStage_process(data)

(***************************************************************************)
(* Pipelines.  A pipeline object is a record of its fields; an argument    *)
(* obj is a Python object [id, val]: its identity and its current value.   *)
(* process returns [self, raised, val, msg, obj]: the pipeline after the   *)
(* call, what the call returned or raised, and the argument object after   *)
(* the call (TransformStage writes into a dict it is handed).              *)
(***************************************************************************)
StandardStages == <<"Input", "Transform", "Output">>

\* ProcessingPipeline.__init__ followed by the adapter's three add_stage calls
NewPipeline(kind) ==
  [kind |-> kind, stages |-> StandardStages, processed_count |-> 0,
   error_count |-> 0, start_time |-> 0, total_time |-> 0, buffer |-> <<>>]

\* ProcessingPipeline.add_stage
add_stage(self, stage) == [self EXCEPT !.stages = Append(@, stage)]

\* num / den rounded to the nearest integer, a tie to the even one: what
\* round() does to a value it holds exactly
RoundHalfEven(num, den) ==
  IF 2 * (num % den) > den \/ (2 * (num % den) = den /\ (num \div den) % 2 = 1)
  THEN (num \div den) + 1
  ELSE num \div den

\* get_stats that cuts the efficiency off after its first decimal
get_stats_truncating(self, pipeline_id) ==
  [pipeline_id |-> pipeline_id,
   processed |-> self.processed_count,
   errors |-> self.error_count,
   efficiency |-> IF self.processed_count = 0 THEN 1000
                  ELSE ((self.processed_count - self.error_count) * 1000)
                       \div self.processed_count,
   total_time |-> 100 * self.total_time]

\* ProcessingPipeline.get_stats.  The floats are held as integers:
\* efficiency in tenths (round(efficiency, 1)) and total_time in hundredths
\* (round(self.total_time, 2)).  The float computation gives the tenths
\* RoundHalfEven gives for every processed_count below 80.
get_stats(self, pipeline_id) ==
  [pipeline_id |-> pipeline_id,
   processed |-> self.processed_count,
   errors |-> self.error_count,
   efficiency |-> IF self.processed_count = 0 THEN 1000
                  ELSE RoundHalfEven((self.processed_count - self.error_count) * 1000,
                                     self.processed_count),
   total_time |-> 100 * self.total_time]

\* for stage in self.stages: current_data = stage.process(current_data)
\* st = [raised, cur, msg, same, arg]: same says that cur is still the object
\* the caller passed, arg is that object's value
RECURSIVE RunStages(_, _, _, _)
RECURSIVE AfterStage(_, _, _, _, _)
RunStages(stages, i, st, ts) ==
  IF i > Len(stages) \/ st.raised THEN st
  ELSE AfterStage(stages, i, st, ts, StageProcess(stages[i], st.cur, ts))
\* the loop after its i-th stage returned or raised r; InputStage returns
\* the dict it is handed and TransformStage writes into it
AfterStage(stages, i, st, ts, r) ==
  IF r.raised THEN [st EXCEPT !.raised = TRUE, !.msg = r.msg]
  ELSE LET keeps == st.same /\ st.cur.t = "dict" /\ stages[i] \in {"Input", "Transform"}
       IN RunStages(stages, i + 1,
                    [raised |-> FALSE, cur |-> r.val, msg |-> <<>>, same |-> keeps,
                     arg |-> IF keeps THEN r.val ELSE st.arg], ts)

\* the try block of an adapter's process after normalisation: norm is the
\* normalised input (raised when normalisation raised), same says that it
\* is the caller's object
RunPipeline(self, norm, same, obj, ts) ==
  IF norm.raised
  THEN [raised |-> TRUE, cur |-> PyNone, msg |-> norm.msg, same |-> FALSE, arg |-> obj.val]
  ELSE RunStages(self.stages, 1,
         [raised |-> FALSE, cur |-> norm.val, msg |-> <<>>, same |-> same,
          arg |-> obj.val], ts)

\* Settle with a failed call taken back out of processed_count
Settle_uncounting_failures(self, run, obj, elapsed, prefix) ==
  IF run.raised
  THEN [self |-> [self EXCEPT !.error_count = @ + 1, !.processed_count = @ - 1],
        raised |-> FALSE, val |-> PyStr(prefix \o run.msg), msg |-> <<>>,
        obj |-> [obj EXCEPT !.val = run.arg]]
  ELSE [self |-> [self EXCEPT !.total_time = @ + elapsed],
        raised |-> FALSE, val |-> PyStr(Str(run.cur)), msg |-> <<>>,
        obj |-> [obj EXCEPT !.val = run.arg]]

\* Settle with an except block that counts the error and raises it again
Settle_reraising(self, run, obj, elapsed, prefix) ==
  IF run.raised
  THEN [self |-> [self EXCEPT !.error_count = @ + 1],
        raised |-> TRUE, val |-> PyNone, msg |-> run.msg,
        obj |-> [obj EXCEPT !.val = run.arg]]
  ELSE [self |-> [self EXCEPT !.total_time = @ + elapsed],
        raised |-> FALSE, val |-> PyStr(Str(run.cur)), msg |-> <<>>,
        obj |-> [obj EXCEPT !.val = run.arg]]

\* the two ways an adapter's process ends: return str(current_data) after
\* adding the elapsed time, or count the error and return the error text;
\* self has start_time and processed_count already written
Settle(self, run, obj, elapsed, prefix) ==
  IF run.raised
  THEN [self |-> [self EXCEPT !.error_count = @ + 1],
        raised |-> FALSE, val |-> PyStr(prefix \o run.msg), msg |-> <<>>,
        obj |-> [obj EXCEPT !.val = run.arg]]
  ELSE [self |-> [self EXCEPT !.total_time = @ + elapsed],
        raised |-> FALSE, val |-> PyStr(Str(run.cur)), msg |-> <<>>,
        obj |-> [obj EXCEPT !.val = run.arg]]

\* the try block of JSONAdapter.process: a dict is serialised first
JSONAdapter_try(self, obj, now) ==
  RunPipeline(self,
              IF obj.val.t = "dict" THEN json_dumps(obj.val) ELSE Returned(obj.val),
              obj.val.t # "dict", obj, now)

\* JSONAdapter.process with processed_count += 1 moved to the end of the try
\* block, where only a call that succeeds reaches it
JSONAdapter_process_counting_successes(self, obj, now, elapsed) ==
  IF JSONAdapter_try(self, obj, now).raised
  THEN Settle([self EXCEPT !.start_time = now],
              JSONAdapter_try(self, obj, now), obj, elapsed, SErrJSON)
  ELSE Settle([self EXCEPT !.start_time = now, !.processed_count = @ + 1],
              JSONAdapter_try(self, obj, now), obj, elapsed, SErrJSON)

\* JSONAdapter.process
JSONAdapter_process(self, obj, now, elapsed) ==
  Settle([self EXCEPT !.start_time = now, !.processed_count = @ + 1],
         JSONAdapter_try(self, obj, now), obj, elapsed, SErrJSON)

\* the try block of CSVAdapter.process: anything that is no str becomes its
\* str()
CSVAdapter_try(self, obj, now) ==
  RunPipeline(self,
              IF obj.val.t # "str" THEN Returned(PyStr(Str(obj.val)))
              ELSE Returned(obj.val),
              obj.val.t = "str", obj, now)

\* CSVAdapter.process
CSVAdapter_process(self, obj, now, elapsed) ==
  Settle([self EXCEPT !.start_time = now, !.processed_count = @ + 1],
         CSVAdapter_try(self, obj, now), obj, elapsed, SErrCSV)

\* deque(maxlen=100)
BufferCapacity == 100

\* deque.append on a deque without maxlen: nothing is dropped
BufferAppend_unbounded(buffer, obj) == Append(buffer, obj)

\* deque.append on a bounded deque: a full deque drops its oldest entry
BufferAppend(buffer, obj) ==
  IF Len(buffer) >= BufferCapacity THEN Append(Tail(buffer), obj)
  ELSE Append(buffer, obj)

\* the buffer after the argument object changed: the buffer holds the object
\* itself, so every entry with its identity shows its current value
BufferSee(buffer, obj) ==
  [i \in 1..Len(buffer) |-> IF buffer[i].id = obj.id THEN obj ELSE buffer[i]]

\* the call's result with the buffer showing the argument as the call left it
Buffered(res) == [res EXCEPT !.self.buffer = BufferSee(@, res.obj)]

\* the try block of StreamAdapter.process: the input is passed as it is
StreamAdapter_try(self, obj, now) == RunPipeline(self, Returned(obj.val), TRUE, obj, now)

\* StreamAdapter.process: the raw input goes into the buffer first
StreamAdapter_process(self, obj, now, elapsed) ==
  Buffered(Settle([self EXCEPT !.start_time = now, !.processed_count = @ + 1,
                               !.buffer = BufferAppend(@, obj)],
                  StreamAdapter_try(self, obj, now), obj, elapsed, SErrStream))

\* str(e) of the exception a defective pipeline raises
SUnavailable == <<"P", "i", "p", "e", "l", "i", "n", "e", " ", "u", "n", "a", "v", "a", "i", "l", "a", "b", "l", "e">>

\* process of a ProcessingPipeline subclass that is none of the three
\* adapters and raises instead of returning: the only kind of pipeline whose
\* failure reaches the manager
DefectivePipeline_process(self, obj, now, elapsed) ==
  [self |-> self, raised |-> TRUE, val |-> PyNone, msg |-> SUnavailable, obj |-> obj]

\* pipeline.process(data), dispatched on the pipeline's class
Pipeline_process(self, obj, now, elapsed) ==
  CASE self.kind = "JSON" -> JSONAdapter_process(self, obj, now, elapsed)
    [] self.kind = "CSV" -> CSVAdapter_process(self, obj, now, elapsed)
    [] self.kind = "Stream" -> StreamAdapter_process(self, obj, now, elapsed)
    [] self.kind = "Defective" -> DefectivePipeline_process(self, obj, now, elapsed)

\* the try block of pipeline.process, by the pipeline's class: what the
\* normalisation and the stages leave, raised or not
Pipeline_try(self, obj, now) ==
  CASE self.kind = "JSON" -> JSONAdapter_try(self, obj, now)
    [] self.kind = "CSV" -> CSVAdapter_try(self, obj, now)
    [] self.kind = "Stream" -> StreamAdapter_try(self, obj, now)

(***************************************************************************)
(* The manager.  mgr = [pipelines, total_processed, backup_pipeline];      *)
(* pipelines holds references (identifiers) into heap, the pipeline        *)
(* objects, and backup_pipeline is a reference or "None".  A manager call  *)
(* returns [mgr, heap, raised, val, msg, trace, now]: trace lists the      *)
(* invocations of process, in order, each as [pipe, obj]: the pipeline and *)
(* the argument object; every invocation takes elapsed on the clock.       *)
(***************************************************************************)
\* NexusManager.__init__
NewManager == [pipelines |-> <<>>, total_processed |-> 0, backup_pipeline |-> "None"]

\* NexusManager.add_pipeline
add_pipeline(mgr, p) == [mgr EXCEPT !.pipelines = Append(@, p)]

\* NexusManager.set_backup_pipeline
set_backup_pipeline(mgr, p) == [mgr EXCEPT !.backup_pipeline = p]

\* 0 <= idx < len(self.pipelines)
InRange(mgr, idx) == 0 <= idx /\ idx < Len(mgr.pipelines)

\* Recovered with total_processed += 1 after the backup's process as well
Recovered_counted(mgr, heap, p, obj, r, now, elapsed, rb) ==
  [mgr |-> [mgr EXCEPT !.total_processed = @ + 1],
   heap |-> [heap EXCEPT ![mgr.backup_pipeline] = rb.self],
   raised |-> rb.raised, val |-> rb.val, msg |-> rb.msg,
   trace |-> <<[pipe |-> p, obj |-> obj], [pipe |-> mgr.backup_pipeline, obj |-> r.obj]>>,
   now |-> now + 2 * elapsed]

\* the except branch of process_data with a backup set, after
\* backup.process returned or raised rb
Recovered(mgr, heap, p, obj, r, now, elapsed, rb) ==
  [mgr |-> mgr, heap |-> [heap EXCEPT ![mgr.backup_pipeline] = rb.self],
   raised |-> rb.raised, val |-> rb.val, msg |-> rb.msg,
   trace |-> <<[pipe |-> p, obj |-> obj], [pipe |-> mgr.backup_pipeline, obj |-> r.obj]>>,
   now |-> now + 2 * elapsed]

\* Dispatched with an except branch that never turns to the backup
Dispatched_without_recovery(mgr, heap, p, obj, now, elapsed, r) ==
  IF ~r.raised
  THEN [mgr |-> [mgr EXCEPT !.total_processed = @ + 1],
        heap |-> [heap EXCEPT ![p] = r.self],
        raised |-> FALSE, val |-> r.val, msg |-> <<>>,
        trace |-> <<[pipe |-> p, obj |-> obj]>>, now |-> now + elapsed]
  ELSE [mgr |-> mgr, heap |-> [heap EXCEPT ![p] = r.self],
        raised |-> FALSE, val |-> PyStr(SErr \o r.msg), msg |-> <<>>,
        trace |-> <<[pipe |-> p, obj |-> obj]>>, now |-> now + elapsed]

\* process_data after self.pipelines[pipeline_index].process(data), p,
\* returned or raised r
Dispatched(mgr, heap, p, obj, now, elapsed, r) ==
  IF ~r.raised
  THEN [mgr |-> [mgr EXCEPT !.total_processed = @ + 1],
        heap |-> [heap EXCEPT ![p] = r.self],
        raised |-> FALSE, val |-> r.val, msg |-> <<>>,
        trace |-> <<[pipe |-> p, obj |-> obj]>>, now |-> now + elapsed]
  ELSE IF mgr.backup_pipeline # "None"
  THEN Recovered(mgr, [heap EXCEPT ![p] = r.self], p, obj, r, now, elapsed,
                 Pipeline_process([heap EXCEPT ![p] = r.self][mgr.backup_pipeline],
                                  r.obj, now + elapsed, elapsed))
  ELSE [mgr |-> mgr, heap |-> [heap EXCEPT ![p] = r.self],
        raised |-> FALSE, val |-> PyStr(SErr \o r.msg), msg |-> <<>>,
        trace |-> <<[pipe |-> p, obj |-> obj]>>, now |-> now + elapsed]

\* process_data with total_processed += 1 ahead of the range check
process_data_counting_first(mgr, heap, pipeline_index, obj, now, elapsed) ==
  IF InRange(mgr, pipeline_index)
  THEN Dispatched(mgr, heap, mgr.pipelines[pipeline_index + 1], obj, now, elapsed,
                  Pipeline_process(heap[mgr.pipelines[pipeline_index + 1]], obj,
                                   now, elapsed))
  ELSE [mgr |-> [mgr EXCEPT !.total_processed = @ + 1], heap |-> heap,
        raised |-> FALSE, val |-> PyStr(SInvalidIndex), msg |-> <<>>,
        trace |-> <<>>, now |-> now]

\* NexusManager.process_data
process_data(mgr, heap, pipeline_index, obj, now, elapsed) ==
  IF InRange(mgr, pipeline_index)
  THEN Dispatched(mgr, heap, mgr.pipelines[pipeline_index + 1], obj, now, elapsed,
                  Pipeline_process(heap[mgr.pipelines[pipeline_index + 1]], obj,
                                   now, elapsed))
  ELSE [mgr |-> mgr, heap |-> heap,
        raised |-> FALSE, val |-> PyStr(SInvalidIndex), msg |-> <<>>,
        trace |-> <<>>, now |-> now]

\* the loop of chain_pipelines from its k-th index on; st is the call's
\* result so far, its val the current_data and id that object's identity;
\* every intermediate result is a new object, named next_id
RECURSIVE ChainFrom(_, _, _, _, _)
RECURSIVE Chained(_, _, _, _, _, _, _)
\* ChainFrom with an invalid index passed over (continue) instead of ending
\* the call
ChainFrom_skipping_invalid(st, pipeline_indices, k, elapsed, next_id) ==
  IF k > Len(pipeline_indices) THEN st
  ELSE IF InRange(st.mgr, pipeline_indices[k])
  THEN Chained(st, pipeline_indices, k, elapsed, next_id,
               st.mgr.pipelines[pipeline_indices[k] + 1],
               Pipeline_process(st.heap[st.mgr.pipelines[pipeline_indices[k] + 1]],
                                [id |-> st.id, val |-> st.val], st.now, elapsed))
  ELSE ChainFrom(st, pipeline_indices, k + 1, elapsed, next_id)

ChainFrom(st, pipeline_indices, k, elapsed, next_id) ==
  IF k > Len(pipeline_indices) THEN st
  ELSE IF InRange(st.mgr, pipeline_indices[k])
  THEN Chained(st, pipeline_indices, k, elapsed, next_id,
               st.mgr.pipelines[pipeline_indices[k] + 1],
               Pipeline_process(st.heap[st.mgr.pipelines[pipeline_indices[k] + 1]],
                                [id |-> st.id, val |-> st.val], st.now, elapsed))
  ELSE [st EXCEPT !.val = PyStr(SInvalidIndex \o <<" ">> \o IntStr(pipeline_indices[k]))]
\* Chained with a return as soon as a pipeline's result is an error text
Chained_stopping_on_error(st, pipeline_indices, k, elapsed, next_id, p, r) ==
  LET st1 == [st EXCEPT !.heap = [@ EXCEPT ![p] = r.self],
                        !.trace = Append(@, [pipe |-> p,
                                             obj |-> [id |-> st.id, val |-> st.val]]),
                        !.now = @ + elapsed]
  IN IF r.raised
     THEN [st1 EXCEPT !.raised = TRUE, !.val = PyNone, !.msg = r.msg]
     ELSE IF StartsWith(r.val.s, SErrProcessing)
     THEN [st1 EXCEPT !.val = r.val, !.id = next_id]
     ELSE ChainFrom([st1 EXCEPT !.val = r.val, !.id = next_id],
                    pipeline_indices, k + 1, elapsed, next_id + 1)

\* the loop after self.pipelines[idx].process(current_data), p, returned or
\* raised r: an exception leaves chain_pipelines
Chained(st, pipeline_indices, k, elapsed, next_id, p, r) ==
  LET st1 == [st EXCEPT !.heap = [@ EXCEPT ![p] = r.self],
                        !.trace = Append(@, [pipe |-> p,
                                             obj |-> [id |-> st.id, val |-> st.val]]),
                        !.now = @ + elapsed]
  IN IF r.raised
     THEN [st1 EXCEPT !.raised = TRUE, !.val = PyNone, !.msg = r.msg]
     ELSE ChainFrom([st1 EXCEPT !.val = r.val, !.id = next_id],
                    pipeline_indices, k + 1, elapsed, next_id + 1)

\* NexusManager.chain_pipelines; obj is the caller's data
chain_pipelines(mgr, heap, obj, pipeline_indices, now, elapsed, next_id) ==
  ChainFrom([mgr |-> mgr, heap |-> heap, raised |-> FALSE, val |-> obj.val,
             id |-> obj.id, msg |-> <<>>, trace |-> <<>>, now |-> now],
            pipeline_indices, 1, elapsed, next_id)

(***************************************************************************)
(* Bounds                                                                  *)
(***************************************************************************)
\* operations performed in one behaviour
MaxOps == 3
\* pipelines registered with the manager
MaxPipelines == 2
\* stages in one pipeline
MaxStages == 4
\* ticks of the clock one call of process takes
MaxElapsed == 1
\* calls of process in a behaviour that fills the stream buffer
MaxFeed == 150
\* characters of a text handed to the stages
MaxText == 3
\* calls of process behind a pipeline whose statistics are read
MaxCount == 16

\* the pipeline objects that exist: one of each adapter, and one pipeline
\* of a class whose process raises
PipeIds == {"JSON_001", "CSV_001", "STREAM_001", "DEFECT_001"}
KindOf(p) ==
  CASE p = "JSON_001" -> "JSON"
    [] p = "CSV_001" -> "CSV"
    [] p = "STREAM_001" -> "Stream"
    [] p = "DEFECT_001" -> "Defective"

\* the pipelines of the three adapter classes
Adapters == {p \in PipeIds : KindOf(p) # "Defective"}

StageKinds == {"Input", "Transform", "Output", "Failing"}

SXYZ == <<"x", ",", "y", ",", "z">>
DictA1 == PyDict(<< <<PyStr(<<"a">>), PyInt(1)>> >>)
\* the data a caller passes
Inputs == {PyNone, PyStr(SXYZ), DictA1}
\* the pipeline_index a caller passes
Indices == (0 - 1)..MaxPipelines
\* the pipeline_indices a caller passes
IndexLists ==
  {<<>>, <<0>>, <<0, 1>>, <<0, 0, 0>>, <<0, 1, 0>>, <<0, 1, 2>>,
   <<2, 0, 1>>, <<0, 2, 1>>, <<2, 0, 0 - 1>>}
Elapsed == 1..MaxElapsed

(***************************************************************************)
(* The state                                                               *)
(***************************************************************************)
VARIABLES
  heap,        \* the pipeline objects, by identifier
  manager,     \* the NexusManager
  clock,       \* what time.time() reads
  next_id,     \* the identity of the next object created
  op,          \* the last operation called and its arguments
  result,      \* what it returned or raised
  trace,       \* the invocations of process it made, in order
  passed,      \* per pipeline, the objects passed to its process so far,
               \* each as it was when passed
  dispatched,  \* the process_data calls whose selected pipeline returned
  ops          \* the operations performed

vars == <<heap, manager, clock, next_id, op, result, trace, passed, dispatched, ops>>

NoArgs == [name |-> "none", pipe |-> "None", stage |-> "None", index |-> 0,
           indices |-> <<>>, data |-> PyNone, elapsed |-> 0]

Init ==
  /\ heap = [p \in PipeIds |-> NewPipeline(KindOf(p))]
  /\ manager = NewManager
  /\ clock = 0
  /\ next_id = 1
  /\ op = NoArgs
  /\ result = Returned(PyNone)
  /\ trace = <<>>
  /\ passed = [p \in PipeIds |-> <<>>]
  /\ dispatched = 0
  /\ ops = 0

\* passed after the invocations of trace
RECURSIVE Record(_, _)
Record(pd, tr) ==
  IF Len(tr) = 0 THEN pd
  ELSE Record([pd EXCEPT ![tr[1].pipe] = Append(@, tr[1].obj)], Tail(tr))

Outcome(r) == [raised |-> r.raised, val |-> r.val, msg |-> r.msg]

\* manager.add_pipeline(p)
AddPipeline(p) ==
  /\ ops < MaxOps
  /\ Len(manager.pipelines) < MaxPipelines
  /\ manager' = add_pipeline(manager, p)
  /\ op' = [NoArgs EXCEPT !.name = "add_pipeline", !.pipe = p]
  /\ result' = Returned(PyNone)
  /\ trace' = <<>>
  /\ ops' = ops + 1
  /\ UNCHANGED <<heap, clock, next_id, passed, dispatched>>

\* manager.set_backup_pipeline(p)
SetBackupPipeline(p) ==
  /\ ops < MaxOps
  /\ manager' = set_backup_pipeline(manager, p)
  /\ op' = [NoArgs EXCEPT !.name = "set_backup_pipeline", !.pipe = p]
  /\ result' = Returned(PyNone)
  /\ trace' = <<>>
  /\ ops' = ops + 1
  /\ UNCHANGED <<heap, clock, next_id, passed, dispatched>>

\* pipeline.add_stage(stage)
AddStage(p, stage) ==
  /\ ops < MaxOps
  /\ Len(heap[p].stages) < MaxStages
  /\ heap' = [heap EXCEPT ![p] = add_stage(@, stage)]
  /\ op' = [NoArgs EXCEPT !.name = "add_stage", !.pipe = p, !.stage = stage]
  /\ result' = Returned(PyNone)
  /\ trace' = <<>>
  /\ ops' = ops + 1
  /\ UNCHANGED <<manager, clock, next_id, passed, dispatched>>

\* pipeline.stages[1] = FailingStage(), as the error recovery test does
ReplaceStage(p) ==
  /\ ops < MaxOps
  /\ heap[p].stages[2] # "Failing"
  /\ heap' = [heap EXCEPT ![p].stages[2] = "Failing"]
  /\ op' = [NoArgs EXCEPT !.name = "replace_stage", !.pipe = p, !.stage = "Failing"]
  /\ result' = Returned(PyNone)
  /\ trace' = <<>>
  /\ ops' = ops + 1
  /\ UNCHANGED <<manager, clock, next_id, passed, dispatched>>

\* the state after pipeline.process(obj) returned or raised r
Called(p, obj, elapsed, r) ==
  /\ heap' = [heap EXCEPT ![p] = r.self]
  /\ result' = Outcome(r)
  /\ trace' = <<[pipe |-> p, obj |-> obj]>>
  /\ passed' = [passed EXCEPT ![p] = Append(@, obj)]
  /\ clock' = clock + elapsed
  /\ next_id' = next_id + 1
  /\ op' = [NoArgs EXCEPT !.name = "process", !.pipe = p, !.data = obj.val,
                          !.elapsed = elapsed]
  /\ UNCHANGED <<manager, dispatched>>

\* pipeline.process(data)
Process(p, data, elapsed) ==
  /\ ops < MaxOps
  /\ Called(p, [id |-> next_id, val |-> data], elapsed,
            Pipeline_process(heap[p], [id |-> next_id, val |-> data], clock, elapsed))
  /\ ops' = ops + 1

\* the state after a call of the manager returned or raised r
Managed(r) ==
  /\ heap' = r.heap
  /\ manager' = r.mgr
  /\ result' = Outcome(r)
  /\ trace' = r.trace
  /\ passed' = Record(passed, r.trace)
  /\ clock' = r.now

\* manager.process_data(index, data); the call is counted in dispatched
\* when its index is in range and the selected pipeline's process returns
ProcessData(index, data, elapsed) ==
  /\ ops < MaxOps
  /\ Managed(process_data(manager, heap, index, [id |-> next_id, val |-> data],
                          clock, elapsed))
  /\ next_id' = next_id + 1
  /\ dispatched' = IF /\ InRange(manager, index)
                      /\ ~Pipeline_process(heap[manager.pipelines[index + 1]],
                                           [id |-> next_id, val |-> data],
                                           clock, elapsed).raised
                   THEN dispatched + 1 ELSE dispatched
  /\ op' = [NoArgs EXCEPT !.name = "process_data", !.index = index,
                          !.data = data, !.elapsed = elapsed]
  /\ ops' = ops + 1

\* manager.chain_pipelines(data, indices)
ChainPipelines(data, indices, elapsed) ==
  /\ ops < MaxOps
  /\ Managed(chain_pipelines(manager, heap, [id |-> next_id, val |-> data], indices,
                             clock, elapsed, next_id + 1))
  /\ next_id' = next_id + 1 + Len(indices)
  /\ op' = [NoArgs EXCEPT !.name = "chain_pipelines", !.indices = indices,
                          !.data = data, !.elapsed = elapsed]
  /\ ops' = ops + 1
  /\ UNCHANGED dispatched

Next ==
  \/ \E p \in PipeIds : AddPipeline(p)
  \/ \E p \in PipeIds : SetBackupPipeline(p)
  \/ \E p \in PipeIds, stage \in StageKinds : AddStage(p, stage)
  \/ \E p \in PipeIds : ReplaceStage(p)
  \/ \E p \in PipeIds, data \in Inputs, e \in Elapsed : Process(p, data, e)
  \/ \E i \in Indices, data \in Inputs, e \in Elapsed : ProcessData(i, data, e)
  \/ \E data \in Inputs, l \in IndexLists, e \in Elapsed : ChainPipelines(data, l, e)

Spec == Init /\ [][Next]_vars

(***************************************************************************)
(* A stream pipeline fed call after call, past the capacity of its buffer. *)
(* The n-th call passes FeedInput(n): None, an int, a dict and a text in   *)
(* turn, so that calls fail and succeed and every kind of object is        *)
(* buffered; the Transform stage may be replaced by a failing stage at any *)
(* moment.                                                                 *)
(***************************************************************************)
FeedInput(n) ==
  CASE n % 4 = 0 -> PyNone
    [] n % 4 = 1 -> PyInt(n)
    [] n % 4 = 2 -> DictA1
    [] OTHER -> PyStr(SXYZ)

\* stream_pipeline.process(FeedInput(n)) for the next n
Feed ==
  /\ Len(passed["STREAM_001"]) < MaxFeed
  /\ Called("STREAM_001",
            [id |-> next_id, val |-> FeedInput(Len(passed["STREAM_001"]) + 1)], 1,
            Pipeline_process(heap["STREAM_001"],
                             [id |-> next_id,
                              val |-> FeedInput(Len(passed["STREAM_001"]) + 1)],
                             clock, 1))
  /\ UNCHANGED ops

NextBuffer ==
  \/ Feed
  \/ ReplaceStage("STREAM_001")

SpecBuffer == Init /\ [][NextBuffer]_vars

(***************************************************************************)
(* The adapters handed texts: every text of up to MaxText characters over  *)
(* a letter and the comma, and the text "x,y,z".                           *)
(***************************************************************************)
Texts == UNION {[1..n -> {"x", ","}] : n \in 1..MaxText} \cup {SXYZ}

NextFold ==
  \E p \in Adapters, s \in Texts, e \in Elapsed : Process(p, PyStr(s), e)

SpecFold == Init /\ [][NextFold]_vars

(***************************************************************************)
(* The statistics of a pipeline with calls behind it.  The behaviour       *)
(* starts where calls calls of json_pipeline.process, one tick each, have  *)
(* left the program: the first failed of them passed None and failed, the  *)
(* others passed "x,y,z"; every pair of counters with                      *)
(* failed <= calls <= MaxCount is drawn.                                   *)
(***************************************************************************)
StatsInput(i, failed) == IF i <= failed THEN PyNone ELSE PyStr(SXYZ)

AfterCalls(calls, failed) ==
  /\ heap = [p \in PipeIds |->
               IF p = "JSON_001"
               THEN [NewPipeline("JSON") EXCEPT
                       !.processed_count = calls,
                       !.error_count = failed,
                       !.start_time = IF calls = 0 THEN 0 ELSE calls - 1,
                       !.total_time = calls - failed]
               ELSE NewPipeline(KindOf(p))]
  /\ manager = NewManager
  /\ clock = calls
  /\ next_id = calls + 1
  /\ op = IF calls = 0 THEN NoArgs
          ELSE [NoArgs EXCEPT !.name = "process", !.pipe = "JSON_001",
                              !.data = StatsInput(calls, failed), !.elapsed = 1]
  /\ result = IF calls = 0 THEN Returned(PyNone)
              ELSE Outcome(Pipeline_process(NewPipeline("JSON"),
                                            [id |-> calls,
                                             val |-> StatsInput(calls, failed)],
                                            calls - 1, 1))
  /\ trace = IF calls = 0 THEN <<>>
             ELSE <<[pipe |-> "JSON_001",
                     obj |-> [id |-> calls, val |-> StatsInput(calls, failed)]]>>
  /\ passed = [p \in PipeIds |->
                 IF p = "JSON_001"
                 THEN [i \in 1..calls |-> [id |-> i, val |-> StatsInput(i, failed)]]
                 ELSE <<>>]
  /\ dispatched = 0
  /\ ops = calls

InitStats == \E calls \in 0..MaxCount : \E failed \in 0..calls : AfterCalls(calls, failed)

\* pipeline.get_stats()
GetStats(p) ==
  /\ ops <= MaxCount
  /\ op' = [NoArgs EXCEPT !.name = "get_stats", !.pipe = p]
  /\ result' = Returned(get_stats(heap[p], p))
  /\ trace' = <<>>
  /\ ops' = ops + 1
  /\ UNCHANGED <<heap, manager, clock, next_id, passed, dispatched>>

NextStats == \E p \in PipeIds : GetStats(p)

SpecStats == InitStats /\ [][NextStats]_vars

(***************************************************************************)
(* The properties                                                          *)
(***************************************************************************)

\* C1: every call of an adapter's process, returning a result or an error
\* text, adds exactly 1 to that pipeline's processed_count: after any
\* sequence of calls processed_count is the number of process calls made on
\* the pipeline, whoever made them (the caller, process_data, its recovery
\* or chain_pipelines).
C1_CountsEveryCall ==
  \A p \in Adapters : heap[p].processed_count = Len(passed[p])

\* C1 witness: a pipeline called three times, one call failed, two succeeded
C1_CalledThrice ==
  \E p \in Adapters :
    /\ Len(passed[p]) = 3
    /\ heap[p].processed_count = 3
    /\ heap[p].error_count = 1

\* C2: in every reachable state, for every pipeline,
\* 0 <= error_count <= processed_count.
C2_ErrorsWithinCalls ==
  \A p \in PipeIds :
    /\ 0 <= heap[p].error_count
    /\ heap[p].error_count <= heap[p].processed_count

\* C2 witness: a pipeline with a stage added, with failed calls and with
\* more calls than failed calls
C2_SomeFailed ==
  \E p \in Adapters :
    /\ Len(heap[p].stages) > Len(StandardStages)
    /\ heap[p].error_count >= 1
    /\ heap[p].processed_count > heap[p].error_count

C3_Prefix ==
  <<"E", "r", "r", "o", "r", " ", "p", "r", "o", "c", "e", "s", "s", "i", "n", "g", " ">>

\* what C3 says of one call: before and after are the pipeline around the
\* call, res what the call returned or raised, run what its try block left
C3_Outcome(before, after, res, run) ==
  /\ ~res.raised
  /\ IF run.raised
     THEN /\ after.error_count = before.error_count + 1
          /\ res.val.t = "str"
          /\ StartsWith(res.val.s, C3_Prefix)
     ELSE after.error_count = before.error_count

\* C3: when the normalisation of the input or a stage of the pipeline raises
\* during process, the adapter's process does not raise: it adds exactly 1 to
\* error_count and returns a str starting with "Error processing "; a call in
\* which nothing raises leaves error_count as it was.
C3_ErrorsCaptured ==
  [][(op'.name = "process" /\ op'.pipe \in Adapters) =>
       C3_Outcome(heap[op'.pipe], heap'[op'.pipe], result',
                  Pipeline_try(heap[op'.pipe], [id |-> next_id, val |-> op'.data],
                               clock))]_vars

\* C3 witness: a pipeline whose Transform stage was replaced by the failing
\* stage returned an error text for a dict
C3_FailingStageCaptured ==
  /\ op.name = "process"
  /\ op.pipe \in Adapters
  /\ op.data = DictA1
  /\ heap[op.pipe].stages[2] = "Failing"
  /\ heap[op.pipe].error_count = 1
  /\ ~result.raised
  /\ StartsWith(result.val.s, C3_Prefix)

\* C4: after n calls of a stream pipeline's process, failed or not, its
\* buffer holds exactly the objects of the last min(n, 100) calls, in call
\* order (an object that is no dict with the value it was passed with), and
\* never more than 100.
C4_BufferHoldsLastInputs ==
  LET n == Len(passed["STREAM_001"])
      buffer == heap["STREAM_001"].buffer
      size == Len(buffer)
  IN /\ size = (IF n < 100 THEN n ELSE 100)
     /\ size <= BufferCapacity
     /\ \A i \in 1..size :
          /\ buffer[i].id = passed["STREAM_001"][n - size + i].id
          /\ passed["STREAM_001"][n - size + i].val.t # "dict" =>
               buffer[i] = passed["STREAM_001"][n - size + i]

\* C4 witness: MaxFeed calls were made, some failed and some not, and the
\* buffer starts with the object of the call MaxFeed - 99
C4_BufferWrapped ==
  /\ Len(passed["STREAM_001"]) = MaxFeed
  /\ Len(heap["STREAM_001"].buffer) = 100
  /\ heap["STREAM_001"].buffer[1].id = passed["STREAM_001"][MaxFeed - 99].id
  /\ heap["STREAM_001"].error_count > 0
  /\ heap["STREAM_001"].error_count < heap["STREAM_001"].processed_count

C5_Message ==
  <<"E", "r", "r", "o", "r", ":", " ", "I", "n", "v", "a", "l", "i", "d", " ", "p", "i", "p", "e", "l", "i", "n", "e", " ", "i", "n", "d", "e", "x">>

\* C5: process_data(i, x) with i < 0 or i >= the number of registered
\* pipelines returns exactly "Error: Invalid pipeline index" and changes
\* nothing: the manager and every pipeline, the backup included, are as
\* before and no process is invoked.
C5_InvalidIndexChangesNothing ==
  [][(op'.name = "process_data"
      /\ (op'.index < 0 \/ op'.index >= Len(manager.pipelines))) =>
       /\ result' = Returned(PyStr(C5_Message))
       /\ manager' = manager
       /\ heap' = heap
       /\ trace' = <<>>
       /\ passed' = passed]_vars

\* C5 witness: an index out of range was given to a manager with a
\* registered pipeline and a backup
C5_InvalidIndexGiven ==
  /\ op.name = "process_data"
  /\ (op.index < 0 \/ op.index >= Len(manager.pipelines))
  /\ Len(manager.pipelines) >= 1
  /\ manager.backup_pipeline # "None"
  /\ result.val = PyStr(C5_Message)

C6_Error == <<"E", "r", "r", "o", "r", ":", " ">>

\* what C6 says of a process_data call whose selected pipeline p raised r
\* out of its process: with a backup b (one of the adapters) the call returns
\* what b.process returns for the same object and b has one more call; with
\* no backup it returns "Error: <message>" and p is the only pipeline invoked
C6_Outcome(p, obj, r, elapsed) ==
  IF manager.backup_pipeline # "None"
  THEN manager.backup_pipeline \in Adapters =>
         /\ result' = Outcome(Pipeline_process(heap[manager.backup_pipeline], obj,
                                               clock + elapsed, elapsed))
         /\ heap'[manager.backup_pipeline].processed_count =
              heap[manager.backup_pipeline].processed_count + 1
         /\ trace' = <<[pipe |-> p, obj |-> obj],
                       [pipe |-> manager.backup_pipeline, obj |-> obj]>>
  ELSE /\ result' = Returned(PyStr(C6_Error \o r.msg))
       /\ trace' = <<[pipe |-> p, obj |-> obj]>>
       /\ \A q \in PipeIds \ {p} : heap'[q] = heap[q]

\* C6: when the pipeline selected by an in-range index raises out of its
\* process, process_data with a backup set returns exactly what
\* backup.process returns for the same input, and the backup's
\* processed_count grows by 1; with no backup set it returns
\* "Error: <message>" and invokes no other pipeline.
C6_BackupTakesOver ==
  [][(/\ op'.name = "process_data"
      /\ InRange(manager, op'.index)
      /\ Pipeline_process(heap[manager.pipelines[op'.index + 1]],
                          [id |-> next_id, val |-> op'.data], clock,
                          op'.elapsed).raised) =>
       C6_Outcome(manager.pipelines[op'.index + 1],
                  [id |-> next_id, val |-> op'.data],
                  Pipeline_process(heap[manager.pipelines[op'.index + 1]],
                                   [id |-> next_id, val |-> op'.data], clock,
                                   op'.elapsed),
                  op'.elapsed)]_vars

\* C6 witness: process_data went to the backup, an adapter, after the
\* selected pipeline raised, and returned the backup's result
C6_Recovered ==
  /\ op.name = "process_data"
  /\ Len(trace) = 2
  /\ KindOf(trace[1].pipe) = "Defective"
  /\ trace[2].pipe = manager.backup_pipeline
  /\ manager.backup_pipeline \in Adapters
  /\ ~result.raised
  /\ result.val.t = "str"

\* C7: every call of process_data and of chain_pipelines returns a str and
\* never raises, whatever the registry, the backup and the input.
C7_AlwaysReturnsText ==
  op.name \in {"process_data", "chain_pipelines"} =>
    /\ ~result.raised
    /\ result.val.t = "str"

\* C8: total_processed is the number of process_data calls with an in-range
\* index whose selected pipeline's process returned (an error text
\* included); calls recovered by the backup, calls with an invalid index and
\* chain_pipelines calls do not change it.
C8_CountsDispatches == manager.total_processed = dispatched

\* C8 witness: two process_data calls were counted, one of which returned
\* the error text of an error the pipeline captured
C8_CountedCapturedError ==
  /\ op.name = "process_data"
  /\ manager.total_processed = 2
  /\ \E p \in Adapters : heap[p].error_count = 1 /\ heap[p].processed_count = 2

\* chain_pipelines(first's result, [c]) after a first chain_pipelines call
\* returned or raised first; the result is a new object
C9_Then(first, c, elapsed, id) ==
  IF first.raised THEN first
  ELSE chain_pipelines(first.mgr, first.heap, [id |-> id, val |-> first.val], <<c>>,
                       first.now, elapsed, id + 1)

\* chain_pipelines(chain_pipelines(x, [a, b]), [c]) from the current state,
\* the process calls reading the clock as those of one call do
C9_Twice(x, indices, elapsed) ==
  C9_Then(chain_pipelines(manager, heap, [id |-> next_id, val |-> x],
                          <<indices[1], indices[2]>>, clock, elapsed, next_id + 1),
          indices[3], elapsed, next_id + 3)

C9_OnlyAdapters ==
  \A i \in 1..Len(manager.pipelines) : manager.pipelines[i] \in Adapters

\* C9 as stated: over registered adapters, for all indices A, B, C, in range
\* or not, chain_pipelines(chain_pipelines(x, [A, B]), [C]) returns the value
\* chain_pipelines(x, [A, B, C]) returns from the same state.
C9_Associative ==
  [][(op'.name = "chain_pipelines" /\ Len(op'.indices) = 3 /\ C9_OnlyAdapters) =>
       result' = Outcome(C9_Twice(op'.data, op'.indices, op'.elapsed))]_vars

\* C9 amended: the same, for A and B in range and C in range or not.
C9_AssociativeInRange ==
  [][(/\ op'.name = "chain_pipelines"
      /\ Len(op'.indices) = 3
      /\ C9_OnlyAdapters
      /\ InRange(manager, op'.indices[1])
      /\ InRange(manager, op'.indices[2])) =>
       result' = Outcome(C9_Twice(op'.data, op'.indices, op'.elapsed))]_vars

\* C9 witness: a chain of three in-range indices went through two registered
\* adapters
C9_ChainedThree ==
  /\ op.name = "chain_pipelines"
  /\ op.indices = <<0, 1, 0>>
  /\ C9_OnlyAdapters
  /\ Len(manager.pipelines) = 2
  /\ Len(trace) = 3
  /\ ~result.raised

C10_ListXYZ == PyList(<<PyStr(<<"x">>), PyStr(<<"y">>), PyStr(<<"z">>)>>)

C10_DictXYZ ==
  PyDict(<< <<PyStr(<<"i", "t", "e", "m", "s">>), C10_ListXYZ>>,
            <<PyStr(<<"c", "o", "u", "n", "t">>), PyInt(3)>>,
            <<PyStr(<<"_", "p", "r", "o", "c", "e", "s", "s", "e", "d">>), PyBool(TRUE)>> >>)

\* "Output: List with <n> items"
C10_ListWith(n) ==
  <<"O", "u", "t", "p", "u", "t", ":", " ", "L", "i", "s", "t", " ", "w", "i", "t", "h", " ">>
  \o IntStr(n) \o <<" ", "i", "t", "e", "m", "s">>

\* "Output: items=<the list of fields as Python prints it>, count=<n>"
C10_ItemsCount(fields) ==
  <<"O", "u", "t", "p", "u", "t", ":", " ", "i", "t", "e", "m", "s", "=">>
  \o Repr(PyList(fields))
  \o <<",", " ", "c", "o", "u", "n", "t", "=">> \o IntStr(Len(fields))

C10_XYZItemsCount ==
  <<"O", "u", "t", "p", "u", "t", ":", " ", "i", "t", "e", "m", "s", "=", "[", "'", "x", "'", ",", " ", "'", "y", "'", ",", " ", "'", "z", "'", "]", ",", " ", "c", "o", "u", "n", "t", "=", "3">>

\* the fields of a comma-separated text
C10_Fields(s) == Split(s, ",")

\* the last call was an adapter with the three standard stages handed a
\* comma-separated text
C10_FoldedText ==
  /\ op.name = "process"
  /\ op.pipe \in Adapters
  /\ heap[op.pipe].stages = StandardStages
  /\ op.data.t = "str"
  /\ Contains(op.data.s, ",")

\* C10 as stated: "x,y,z" is the list ["x","y","z"] after Input and the
\* mapping {items: ["x","y","z"], count: 3, processed: true} after Transform,
\* and an adapter returns "Output: List with <n> items" for a comma-separated
\* text of n fields.
C10_ListSummary ==
  /\ InputStage_process(PyStr(SXYZ)) = Returned(C10_ListXYZ)
  /\ TransformStage_process(C10_ListXYZ, clock) = Returned(C10_DictXYZ)
  /\ C10_FoldedText =>
       result = Returned(PyStr(C10_ListWith(Len(C10_Fields(op.data.s)))))

\* C10 amended: "x,y,z" is the list ["x","y","z"] after Input and the mapping
\* {items: ["x","y","z"], count: 3, _processed: True} after Transform; Output
\* turns that mapping into "Output: items=['x', 'y', 'z'], count=3", and an
\* adapter returns "Output: items=<list of the n fields>, count=<n>" for a
\* comma-separated text that does not begin with "{" or "[";
\* "Output: List with <n> items" is what Output returns for a list itself.
C10_ItemsAndCount ==
  /\ InputStage_process(PyStr(SXYZ)) = Returned(C10_ListXYZ)
  /\ TransformStage_process(C10_ListXYZ, clock) = Returned(C10_DictXYZ)
  /\ OutputStage_process(C10_DictXYZ) = Returned(PyStr(C10_XYZItemsCount))
  /\ OutputStage_process(C10_ListXYZ) = Returned(PyStr(C10_ListWith(3)))
  /\ C10_FoldedText =>
       result = Returned(PyStr(C10_ItemsCount(C10_Fields(op.data.s))))
  /\ (C10_FoldedText /\ op.data.s = SXYZ) =>
       result = Returned(PyStr(C10_XYZItemsCount))

\* C10 witness: an adapter with the standard stages returned
\* "Output: items=['x', 'y', 'z'], count=3" for "x,y,z"
C10_XYZFolded ==
  /\ C10_FoldedText
  /\ op.data.s = SXYZ
  /\ result.val = PyStr(C10_XYZItemsCount)

\* C11: get_stats reports efficiency 100.0 when processed_count is 0, and
\* otherwise (processed_count - error_count) / processed_count * 100 rounded
\* to one decimal (no tenth is nearer to it); the efficiency always lies in
\* [0, 100].  Efficiencies are in tenths.
C11_Efficiency ==
  op.name = "get_stats" =>
    LET processed == heap[op.pipe].processed_count
        errors == heap[op.pipe].error_count
        tenths == result.val.efficiency
    IN /\ processed = 0 => tenths = 1000
       /\ processed > 0 =>
            /\ 2 * (tenths * processed - 1000 * (processed - errors)) <= processed
            /\ 2 * (1000 * (processed - errors) - tenths * processed) <= processed
       /\ 0 <= tenths
       /\ tenths <= 1000

\* C11 witness: the statistics of a pipeline with 16 calls, one of them
\* failed, were read: 93.75 became 93.8
C11_StatsRead ==
  /\ op.name = "get_stats"
  /\ heap[op.pipe].processed_count = 16
  /\ heap[op.pipe].error_count = 1
  /\ result.val.efficiency = 938

\* C12: a process call that fails (the normalisation or a stage raises) adds
\* the call's elapsed time to the pipeline's total_time, as a call that
\* succeeds does.
C12_FailuresTakeTime ==
  [][(/\ op'.name = "process"
      /\ op'.pipe \in Adapters
      /\ Pipeline_try(heap[op'.pipe], [id |-> next_id, val |-> op'.data],
                      clock).raised) =>
       heap'[op'.pipe].total_time = heap[op'.pipe].total_time + op'.elapsed]_vars

C13_Message ==
  <<"E", "r", "r", "o", "r", ":", " ", "I", "n", "v", "a", "l", "i", "d", " ", "p", "i", "p", "e", "l", "i", "n", "e", " ", "i", "n", "d", "e", "x", " ">>

\* the number of indices of l ahead of its first out-of-range index
C13_InRangePrefix(l) ==
  IF \A i \in 1..Len(l) : InRange(manager, l[i]) THEN Len(l)
  ELSE (CHOOSE i \in 1..Len(l) :
          /\ ~InRange(manager, l[i])
          /\ \A j \in 1..(i - 1) : InRange(manager, l[j])) - 1

\* what the i-th pipeline named by l returns for the object it was passed in
\* the call that is ending; a pipeline's result does not depend on its
\* counters
C13_Output(l, i, elapsed) ==
  Pipeline_process(heap[manager.pipelines[l[i] + 1]], trace'[i].obj,
                   clock + (i - 1) * elapsed, elapsed).val

\* what C13 says of a chain_pipelines(x, l) call that is ending, n the
\* number of indices ahead of the first out-of-range one
C13_Outcome(x, l, n, elapsed) ==
  /\ Len(trace') = n
  /\ \A i \in 1..n : trace'[i].pipe = manager.pipelines[l[i] + 1]
  /\ n >= 1 => trace'[1].obj.val = x
  /\ \A i \in 1..(n - 1) : trace'[i + 1].obj.val = C13_Output(l, i, elapsed)
  /\ \A p \in PipeIds :
       heap'[p].processed_count =
         heap[p].processed_count
         + Cardinality({i \in 1..n : manager.pipelines[l[i] + 1] = p})
  /\ result' = IF n < Len(l) THEN Returned(PyStr(C13_Message \o IntStr(l[n + 1])))
               ELSE IF n = 0 THEN Returned(x)
               ELSE Returned(C13_Output(l, n, elapsed))

\* C13: a chain_pipelines(x, indices) call that returns has invoked the
\* named pipelines in list order, the first on x and each next one on the
\* previous one's result; at the first out-of-range index k it returns
\* "Error: Invalid pipeline index k": every pipeline named before k had its
\* process called once per occurrence and no pipeline named after k was
\* invoked; with no out-of-range index it returns the last result.
C13_InOrderUntilInvalid ==
  [][(op'.name = "chain_pipelines" /\ ~result'.raised) =>
       C13_Outcome(op'.data, op'.indices, C13_InRangePrefix(op'.indices),
                   op'.elapsed)]_vars

\* C13 witness: a chain over two registered pipelines ended at its second
\* index, 2, after one invocation
C13_StoppedAtInvalid ==
  /\ op.name = "chain_pipelines"
  /\ op.indices = <<0, 2, 1>>
  /\ Len(manager.pipelines) = 2
  /\ Len(trace) = 1
  /\ trace[1].pipe = manager.pipelines[1]
  /\ heap[manager.pipelines[2]].processed_count = 0
  /\ result = Returned(PyStr(C13_Message \o <<"2">>))

\* C14: every entry of a stream pipeline's buffer is equal to the input as
\* the caller passed it to process: the stages do not alter it, in the call
\* that buffered it or in a later one.
C14_BufferKeepsRawInputs ==
  LET n == Len(passed["STREAM_001"])
      buffer == heap["STREAM_001"].buffer
  IN \A i \in 1..Len(buffer) :
       buffer[i] = passed["STREAM_001"][n - Len(buffer) + i]

====
